---- MODULE Spec2Model ----
(***************************************************************************)
(* A model of this2that: the inference / verification engine of            *)
(* src/src/this2that.py (find_subnode_path, detect_projection,             *)
(* detect_filter_by_equality, infer_filter_from_edit, verify_pending) and  *)
(* the session state the event handlers keep.                              *)
(*                                                                         *)
(* Python values are tagged records [t |-> tag, v |-> payload]:            *)
(*   null  : None                    bool : True / False (v is 1 / 0)      *)
(*   int   : int                     float: a float with integral value v  *)
(*   nan   : float('nan')            str  : v is the sequence of code      *)
(*   list  : v is the sequence of           points of the string           *)
(*           elements                dict : v is the sequence of           *)
(*                                          <<key, value>> entries in      *)
(*                                          insertion order                *)
(***************************************************************************)
EXTENDS Integers, Sequences, FiniteSets, TLC

VARIABLES
    data,                \* self.data: the decoded document
    selected_value,      \* self.selected_value
    output_editor,       \* self.output_editor.text (the target text)
    pending_suggestion,  \* self.pending_suggestion
    pending_target_obj,  \* self.pending_target_obj
    suggestion_bar,      \* what update_suggestion_bar last showed
    j2_env,              \* self.j2_env.filters: the names of the filters loaded
    expr_input,          \* self.expr_input.text (the main expression)
    data_file,           \* the content of the file self.data_file names
    data_load_error,     \* self.data_load_error
    edit_right,          \* self.edit_right: the right editor accepts typing
    heap,                \* the containers of an object graph, by identity
    queue,               \* q of find_subnode_path while its loop runs
    seen_ids,            \* seen of find_subnode_path while its loop runs
    show_jmes_tester,    \* self.show_jmes_tester: the JMESPath tester is open
    show_search,         \* self.show_search: the search line is open
    jmes_input,          \* self.jmes_input: the query typed into the tester
    call                 \* the last operation run and what it returned

vars == <<data, selected_value, output_editor, pending_suggestion,
          pending_target_obj, suggestion_bar, j2_env, expr_input, data_file,
          data_load_error, edit_right, heap, queue, seen_ids,
          show_jmes_tester, show_search, jmes_input, call>>

----------------------------------------------------------------------------
(* Values *)

VNull == [t |-> "null", v |-> 0]
VBool(b) == [t |-> "bool", v |-> b]
VInt(n) == [t |-> "int", v |-> n]
VFloat(n) == [t |-> "float", v |-> n]
VNaN == [t |-> "nan", v |-> 0]
VStr(s) == [t |-> "str", v |-> s]
VList(items) == [t |-> "list", v |-> items]
VDict(items) == [t |-> "dict", v |-> items]

True == VBool(1)
False == VBool(0)

\* Python's None is the decoded null: d.get(k) of a missing key, an unset
\* attribute and a YAML null are the same object.
None == VNull

IsNumber(a) == a.t \in {"bool", "int", "float"}
IsInt(a) == a.t \in {"bool", "int"}          \* isinstance(a, int)
IsStr(a) == a.t = "str"
IsList(a) == a.t = "list"
IsDict(a) == a.t = "dict"

\* The strings of the model, as sequences of code points.
sA == <<97>>
sB == <<98>>
sAB == <<97, 98>>
sDash == <<97, 45, 98>>
sNone == <<78, 111, 110, 101>>

----------------------------------------------------------------------------
(* Equality *)

RECURSIVE deep_equal(_, _)
\* a == b as Python evaluates it: bool, int and float compare by numeric
\* value, NaN is unequal to everything including itself, and a container
\* compares its items with "x is y or x == y" (the decoder hands out one
\* NaN object, so a NaN item equals the NaN item at the same place).
deep_equal(a, b) ==
    IF IsNumber(a) /\ IsNumber(b) THEN a.v = b.v
    ELSE IF a.t # b.t THEN FALSE
    ELSE CASE a.t = "null" -> TRUE
           [] a.t = "nan" -> FALSE
           [] a.t = "str" -> a.v = b.v
           [] a.t = "list" ->
                 /\ Len(a.v) = Len(b.v)
                 /\ \A i \in 1..Len(a.v) :
                        \/ (a.v[i].t = "nan" /\ b.v[i].t = "nan")
                        \/ deep_equal(a.v[i], b.v[i])
           [] a.t = "dict" ->
                 /\ Len(a.v) = Len(b.v)
                 /\ \A i \in 1..Len(a.v) : \E j \in 1..Len(b.v) :
                        /\ deep_equal(a.v[i][1], b.v[j][1])
                        /\ \/ (a.v[i][2].t = "nan" /\ b.v[j][2].t = "nan")
                           \/ deep_equal(a.v[i][2], b.v[j][2])
           [] OTHER -> FALSE

----------------------------------------------------------------------------
(* Path search *)

\* A path is the Python list the search builds: mapping keys as they are, and
\* sequence positions as ints (0-based).
NotFound == [found |-> FALSE, path |-> <<>>]
Found(path) == [found |-> TRUE, path |-> path]

\* The children of a container in iteration order, as <<segment, value>>:
\* node.items() of a dict, enumerate(node) of a list.
Children(node) ==
    IF IsDict(node) THEN node.v
    ELSE IF IsList(node) THEN [i \in 1..Len(node.v) |-> <<VInt(i - 1), node.v[i]>>]
    ELSE <<>>

\* The first child (in iteration order) equal to target, 0 if none.
FirstMatch(kids, target) ==
    IF \E i \in 1..Len(kids) : deep_equal(kids[i][2], target)
    THEN CHOOSE i \in 1..Len(kids) :
            /\ deep_equal(kids[i][2], target)
            /\ \A j \in 1..(i - 1) : ~deep_equal(kids[j][2], target)
    ELSE 0

RECURSIVE bfs(_, _, _)
\* The while loop of find_subnode_path: q holds <<path, node>> entries, seen
\* the identities of the nodes already expanded. A node of a decoded tree is
\* identified by its position, its path from the root.
bfs(q, seen, target) ==
    IF q = <<>> THEN NotFound
    ELSE LET path == Head(q)[1]
             node == Head(q)[2]
             kids == Children(node)
             m == FirstMatch(kids, target)
         IN  IF path \in seen THEN bfs(Tail(q), seen, target)
             ELSE IF m # 0 THEN Found(Append(path, kids[m][1]))
             ELSE bfs(Tail(q) \o [i \in 1..Len(kids) |->
                                     <<Append(path, kids[i][1]), kids[i][2]>>],
                      seen \cup {path}, target)

find_subnode_path(root, target) ==
    IF deep_equal(root, target) THEN Found(<<>>)
    ELSE bfs(<< <<(<<>>), root>> >>, {}, target)

RECURSIVE get_value_at_path(_, _)
\* Follow a path segment by segment: a dict is read with .get(k), a list is
\* indexed when the segment is an int, anything else gives None.
get_value_at_path(path, cur) ==
    IF path = <<>> THEN cur
    ELSE LET k == Head(path) IN
         IF IsDict(cur) THEN
             IF \E i \in 1..Len(cur.v) : deep_equal(cur.v[i][1], k)
             THEN get_value_at_path(Tail(path),
                    cur.v[CHOOSE i \in 1..Len(cur.v) : deep_equal(cur.v[i][1], k)][2])
             ELSE get_value_at_path(Tail(path), None)
         ELSE IF IsList(cur) /\ IsInt(k) /\ k.v >= 0 /\ k.v < Len(cur.v)
             THEN get_value_at_path(Tail(path), cur.v[k.v + 1])
         ELSE None

----------------------------------------------------------------------------
(* Strings, keys and sorting *)

IsAlpha(c) == (c >= 97 /\ c <= 122) \/ (c >= 65 /\ c <= 90) \/ c = 95
IsDigit(c) == c >= 48 /\ c <= 57

\* str.isidentifier() on the ASCII strings of the model.
isidentifier(s) ==
    /\ Len(s) > 0
    /\ IsAlpha(s[1])
    /\ \A i \in 2..Len(s) : IsAlpha(s[i]) \/ IsDigit(s[i])

RECURSIVE escape_quotes(_)
\* s.replace("'", "\\'")
escape_quotes(s) ==
    IF s = <<>> THEN <<>>
    ELSE IF Head(s) = 39 THEN <<92, 39>> \o escape_quotes(Tail(s))
    ELSE <<Head(s)>> \o escape_quotes(Tail(s))

RECURSIVE StrLess(_, _)
\* s < t on strings: lexicographic by code point.
StrLess(s, t) ==
    IF t = <<>> THEN FALSE
    ELSE IF s = <<>> THEN TRUE
    ELSE IF Head(s) # Head(t) THEN Head(s) < Head(t)
    ELSE StrLess(Tail(s), Tail(t))

\* a < b is defined between two strings and between two numbers; any other
\* pair raises TypeError.
Comparable(a, b) == (IsStr(a) /\ IsStr(b)) \/ (IsNumber(a) /\ IsNumber(b))
KeyLess(a, b) == IF IsStr(a) THEN StrLess(a.v, b.v) ELSE a.v < b.v

\* sorted(keys) raises TypeError as soon as it compares two keys that have no
\* order; a list of fewer than two keys is never compared.
SortRaises(keys) ==
    \E i, j \in 1..Len(keys) : i < j /\ ~Comparable(keys[i], keys[j])

\* The keys left in the order the set hands them out.
unsorted(keys) == keys

RECURSIVE sorted(_)
sorted(keys) ==
    IF keys = <<>> THEN <<>>
    ELSE LET m == CHOOSE i \in 1..Len(keys) :
                     \A j \in 1..Len(keys) : ~KeyLess(keys[j], keys[i])
             rest == [i \in 1..(Len(keys) - 1) |-> IF i < m THEN keys[i] ELSE keys[i + 1]]
         IN  <<keys[m]>> \o sorted(rest)

\* k in d, for a dict d.
HasKey(d, k) == \E i \in 1..Len(d.v) : deep_equal(d.v[i][1], k)

\* d.get(k)
dict_get(d, k) ==
    IF HasKey(d, k)
    THEN d.v[CHOOSE i \in 1..Len(d.v) : deep_equal(d.v[i][1], k)][2]
    ELSE None

\* list(d.keys())
dict_keys(d) == [i \in 1..Len(d.v) |-> d.v[i][1]]

RECURSIVE SelectSeqKeys(_, _)
\* The keys of ks that are keys of d, in the order of ks: set(ks) & set(d.keys()).
SelectSeqKeys(ks, d) ==
    IF ks = <<>> THEN <<>>
    ELSE IF HasKey(d, Head(ks)) THEN <<Head(ks)>> \o SelectSeqKeys(Tail(ks), d)
    ELSE SelectSeqKeys(Tail(ks), d)

RECURSIVE AddKeys(_, _)
\* set(ks) | set(more), as a duplicate-free sequence.
AddKeys(ks, more) ==
    IF more = <<>> THEN ks
    ELSE IF \E i \in 1..Len(ks) : deep_equal(ks[i], Head(more))
         THEN AddKeys(ks, Tail(more))
         ELSE AddKeys(Append(ks, Head(more)), Tail(more))

----------------------------------------------------------------------------
(* Expression synthesis *)

\* What a helper hands back: a value (st = "ok"), Python's None
\* (st = "none"), or an exception it raised (st = "raise", exc its type).
\* key is the mapping key a rule chose, val the value it filters on.
Ok(x) == [st |-> "ok", res |-> x, key |-> None, val |-> None, exc |-> ""]
OkKey(x, k, v) == [st |-> "ok", res |-> x, key |-> k, val |-> v, exc |-> ""]
Nothing == [st |-> "none", res |-> None, key |-> None, val |-> None, exc |-> ""]
Raise(e) == [st |-> "raise", res |-> None, key |-> None, val |-> None, exc |-> e]

\* A JMESPath string is the sequence of the pieces it was concatenated from.
Piece(k, v) == [k |-> k, v |-> v]

\* One step of the loop of path_to_jmespath. An int (a bool is an int) gives
\* "[p]", an identifier string gives "p" or ".p", any other string gives
\* "['p']" with its quotes escaped; p.replace on a key that is no string
\* raises AttributeError.
path_piece(p) ==
    IF IsInt(p) THEN Ok(Piece("index", p))
    ELSE IF IsStr(p) /\ isidentifier(p.v) THEN Ok(Piece("field", p))
    ELSE IF IsStr(p) THEN Ok(Piece("bracket_quoted", VStr(escape_quotes(p.v))))
    ELSE Raise("AttributeError")

path_to_jmespath(path) ==
    IF \E i \in 1..Len(path) : path_piece(path[i]).st = "raise"
    THEN Raise("AttributeError")
    ELSE IF path = <<>> THEN Ok(<<Piece("current", None)>>)
    ELSE Ok([i \in 1..Len(path) |-> path_piece(path[i]).res])

\* "{{ selected | json_query(" + json.dumps(jq) + ") }}"
json_query_expr(jq) == [t |-> "expr", v |-> jq]

\* json.dumps(v) of a scalar: the JSON text of v, which keeps apart true, 1
\* and 1.0.
json_dumps(v) == [t |-> "json", v |-> v]

\* The keys common to every element of source: set(source[0].keys()), then
\* &= set(it.keys()) for the others.
RECURSIVE common_keys(_, _)
common_keys(ks, rest) ==
    IF rest = <<>> THEN ks
    ELSE common_keys(SelectSeqKeys(ks, Head(rest)), Tail(rest))

\* The for loop of detect_projection over the sorted keys, from position i.
RECURSIVE projection_loop(_, _, _, _)
projection_loop(keys, i, source, target) ==
    IF i > Len(keys) THEN Nothing
    ELSE LET key == keys[i]
             projected == VList([n \in 1..Len(source.v) |-> dict_get(source.v[n], key)])
         IN  IF deep_equal(projected, target)
             THEN IF ~IsStr(key) THEN Raise("AttributeError")
                  ELSE IF isidentifier(key.v)
                       THEN OkKey(json_query_expr(<<Piece("project_field", key)>>), key, None)
                       ELSE OkKey(json_query_expr(<<Piece("project_quoted", key)>>), key, None)
             ELSE projection_loop(keys, i + 1, source, target)

detect_projection(source, target) ==
    IF ~(IsList(source) /\ IsList(target) /\ Len(source.v) > 0) THEN Nothing
    ELSE IF ~(\A i \in 1..Len(source.v) : IsDict(source.v[i])) THEN Nothing
    ELSE LET common == common_keys(dict_keys(source.v[1]), Tail(source.v))
         IN  IF common = <<>> THEN Nothing
             ELSE IF SortRaises(common) THEN Raise("TypeError")
             ELSE projection_loop(sorted(common), 1, source, target)

\* A value that can be a member of a set: lists and dicts are unhashable.
Hashable(v) == ~(IsList(v) \/ IsDict(v))

\* [d for d in source if d.get(k) == v]
RECURSIVE filter_rows(_, _, _)
filter_rows(rows, k, v) ==
    IF rows = <<>> THEN <<>>
    ELSE IF deep_equal(dict_get(Head(rows), k), v)
         THEN <<Head(rows)>> \o filter_rows(Tail(rows), k, v)
         ELSE filter_rows(Tail(rows), k, v)

\* The for loop of detect_filter_by_equality over the sorted keys. vals is
\* the set {d.get(k) for d in target}: building it raises TypeError on an
\* unhashable value, it has one member when every target element gives a
\* value equal to the first one, and that first one is the member it keeps.
RECURSIVE filter_loop(_, _, _, _)
filter_loop(keys, i, source, target) ==
    IF i > Len(keys) THEN Nothing
    ELSE LET k == keys[i]
             got == [n \in 1..Len(target.v) |-> dict_get(target.v[n], k)]
             v == got[1]
             one == \A n \in 1..Len(got) :
                        \/ (got[n].t = "nan" /\ v.t = "nan")
                        \/ deep_equal(got[n], v)
             filtered == VList(filter_rows(source.v, k, v))
         IN  IF \E n \in 1..Len(got) : ~Hashable(got[n]) THEN Raise("TypeError")
             ELSE IF one /\ deep_equal(filtered, target)
                  THEN OkKey(json_query_expr(<<Piece("filter",
                                 [key |-> k,
                                  quoted |-> ~(IsStr(k) /\ isidentifier(k.v)),
                                  literal |-> json_dumps(v)])>>), k, v)
                  ELSE filter_loop(keys, i + 1, source, target)

RECURSIVE union_keys(_, _)
\* set().union(*[set(d.keys()) for d in source])
union_keys(ks, rows) ==
    IF rows = <<>> THEN ks
    ELSE union_keys(AddKeys(ks, dict_keys(Head(rows))), Tail(rows))

detect_filter_by_equality(source, target) ==
    IF ~(IsList(source) /\ IsList(target) /\ Len(source.v) > 0 /\ Len(target.v) > 0)
    THEN Nothing
    ELSE IF ~(\A i \in 1..Len(source.v) : IsDict(source.v[i])) THEN Nothing
    ELSE IF ~(\A i \in 1..Len(target.v) : IsDict(target.v[i])) THEN Nothing
    ELSE LET keys == union_keys(<<>>, source.v)
         IN  IF SortRaises(keys) THEN Raise("TypeError")
             ELSE filter_loop(sorted(keys), 1, source, target)

----------------------------------------------------------------------------
(* The expression evaluator: Jinja2 with the json_query (JMESPath) filter *)

\* JMESPath's equality of a field with a literal: Python's ==, except that a
\* bool never equals a number.
jmes_equals(x, y) ==
    IF (x.t = "bool") # (y.t = "bool") THEN FALSE ELSE deep_equal(x, y)

\* A field of the current value: null unless it is a mapping with that key.
jmes_field(cur, key) == IF IsDict(cur) THEN dict_get(cur, key) ELSE None

RECURSIVE jmes_flatten(_)
\* "[]": the elements of a sequence, those that are sequences merged in.
jmes_flatten(items) ==
    IF items = <<>> THEN <<>>
    ELSE IF IsList(Head(items)) THEN Head(items).v \o jmes_flatten(Tail(items))
    ELSE <<Head(items)>> \o jmes_flatten(Tail(items))

RECURSIVE drop_nulls(_)
\* A projection leaves out the elements its right-hand side maps to null.
drop_nulls(items) ==
    IF items = <<>> THEN <<>>
    ELSE IF Head(items).t = "null" THEN drop_nulls(Tail(items))
    ELSE <<Head(items)>> \o drop_nulls(Tail(items))

RECURSIVE jmes_select(_, _, _)
\* "[?key==`literal`]": the elements whose field equals the literal. A key
\* written as true or null names a field no element has.
jmes_select(items, key, lit) ==
    IF items = <<>> THEN <<>>
    ELSE IF jmes_equals(IF IsStr(key) THEN jmes_field(Head(items), key) ELSE None, lit)
         THEN <<Head(items)>> \o jmes_select(Tail(items), key, lit)
         ELSE jmes_select(Tail(items), key, lit)

\* A piece the JMESPath parser refuses where it stands: "[True]" and "['k']"
\* are multi-select lists, which cannot follow another piece, and a filter
\* whose left side is a number.
piece_parses(jq, i) ==
    CASE jq[i].k = "index" -> jq[i].v.t = "int" \/ i = 1
      [] jq[i].k = "bracket_quoted" -> i = 1
      [] jq[i].k = "filter" -> ~(jq[i].v.key.t \in {"int", "float", "nan"})
      [] OTHER -> TRUE

\* One piece applied to the current value.
jmes_step(piece, cur) ==
    CASE piece.k = "current" -> cur
      [] piece.k = "field" -> jmes_field(cur, piece.v)
      [] piece.k = "index" ->
            IF piece.v.t = "int"
            THEN IF IsList(cur) /\ piece.v.v < Len(cur.v) THEN cur.v[piece.v.v + 1] ELSE None
            \* "[True]" at the start: the multi-select list of the field "True"
            ELSE IF cur.t = "null" THEN None ELSE VList(<<None>>)
      [] piece.k = "bracket_quoted" ->
            \* "['k']" at the start: the multi-select list of the literal 'k'
            IF cur.t = "null" THEN None ELSE VList(<<piece.v>>)
      [] piece.k \in {"project_field", "project_quoted"} ->
            IF IsList(cur)
            THEN LET flat == jmes_flatten(cur.v)
                 IN  VList(drop_nulls([n \in 1..Len(flat) |-> jmes_field(flat[n], piece.v)]))
            ELSE None
      [] piece.k = "filter" ->
            IF IsList(cur)
            THEN VList(jmes_select(cur.v, piece.v.key, piece.v.literal.v))
            ELSE None

RECURSIVE jmes_eval(_, _, _)
jmes_eval(jq, i, cur) ==
    IF i > Len(jq) THEN cur ELSE jmes_eval(jq, i + 1, jmes_step(jq[i], cur))

\* jmespath.search(jq, value), as json_query runs it.
json_query(value, jq) ==
    IF \E i \in 1..Len(jq) : ~piece_parses(jq, i) THEN Raise("RuntimeError")
    ELSE Ok(jmes_eval(jq, 1, value))

RECURSIVE rendered_item(_)
\* What the YAML decoder reads back from str(x) for an item x of a rendered
\* container: None and nan come back as the words "None" and "nan".
rendered_item(x) ==
    CASE x.t = "null" -> VStr(<<78, 111, 110, 101>>)
      [] x.t = "nan" -> VStr(<<110, 97, 110>>)
      [] x.t = "list" -> VList([i \in 1..Len(x.v) |-> rendered_item(x.v[i])])
      [] x.t = "dict" -> VDict([i \in 1..Len(x.v) |->
                                   <<rendered_item(x.v[i][1]), rendered_item(x.v[i][2])>>])
      [] OTHER -> x

\* A template renders to text; the text is kept as what the decoder reads
\* from it (kind "doc"), or as text no decoder accepts (kind "malformed").
Text(kind, v) == [kind |-> kind, v |-> v]
EmptyText == Text("empty", None)

\* str(x) of the result x of the template: a string is rendered bare, and
\* one that opens a flow collection it does not close is text the decoder
\* refuses; anything else is read back as rendered_item says.
render(x) ==
    IF IsStr(x) /\ Len(x.v) > 0 /\ x.v[1] \in {91, 123} THEN Text("malformed", x)
    ELSE Text("doc", rendered_item(x))

\* The texts of the main expression input: nothing, a template that does not
\* close its "{{", and the json_query expressions above.
EmptyExpr == [t |-> "blank", v |-> <<>>]
UnclosedExpr == [t |-> "unclosed", v |-> <<>>]

\* self.evaluate_expression(expr, value) for a json_query expression: the
\* rendered text, the TemplateSyntaxError from_string raises for a template
\* it cannot compile or when the environment has no filter of that name, or
\* the RuntimeError a failing filter is turned into.
evaluate_expression(expr, value) ==
    LET r == json_query(value, expr.v)
    IN  IF expr.t = "unclosed" THEN Raise("TemplateSyntaxError")
        ELSE IF "json_query" \notin j2_env THEN Raise("TemplateSyntaxError")
        ELSE IF r.st = "raise" THEN Raise("RuntimeError")
        ELSE Ok(render(r.res))

\* yaml_parser.load(text) of the safe YAML loader. A text is the value it
\* decodes to with the kind of text it is: "doc" is a document the YAML loader
\* accepts, "empty" is blank, "json_only" is JSON the YAML loader refuses
\* (a repeated key, a tab used for indentation), "malformed" is text neither
\* decoder accepts.
yaml_parser_load(text) ==
    CASE text.kind = "doc" -> Ok(text.v)
      [] text.kind = "empty" -> Ok(None)
      [] OTHER -> Raise("YAMLError")

\* json.loads(text), which the code reaches only with text the YAML loader
\* refused.
json_loads(text) ==
    IF text.kind = "json_only" THEN Ok(text.v) ELSE Raise("JSONDecodeError")

\* yaml_or_json_load(text) of this2that.py: yaml_parser.load(text), nothing
\* else (the JSON branch is commented out).
yaml_or_json_load(text) == yaml_parser_load(text)

\* yaml_or_json_load(text) of this2that2.py and tests/run_tests.py: the JSON
\* decoder runs in the except branch, and what it raises is what leaves.
yaml_or_json_load_fallback(text) ==
    IF yaml_parser_load(text).st = "ok" THEN yaml_parser_load(text) ELSE json_loads(text)

\* load_data() of this2that.py on the file at data_file. The name ruamel is
\* not bound in the module (line 13 imports YAML from it), so line 194 raises
\* NameError for every file that could be read; the outer handler raises
\* again at line 199, before line 200.
load_data(file) ==
    IF file.kind = "unreadable" THEN Raise("OSError") ELSE Raise("NameError")

----------------------------------------------------------------------------
(* The synthesizer and the verification loop *)

Bar(msg, ok) == [msg |-> msg, ok |-> ok]

\* What one run of the rules gives: the rule that produced the candidate
\* (kind), the candidate, the rules entered in order (attempted), and the
\* path, key and value behind the candidate.
Synth(kind, cand, attempted, path, key, val, exc) ==
    [kind |-> kind, cand |-> cand, attempted |-> attempted, path |-> path,
     key |-> key, val |-> val, exc |-> exc]

\* The rules entered in the order EqualityFilter, ExactPath, Projection.
synthesize_filter_first(source, target) ==
    LET found == find_subnode_path(source, target)
        jq == path_to_jmespath(found.path)
        proj == detect_projection(source, target)
        filt == detect_filter_by_equality(source, target)
    IN  IF filt.st = "ok"
        THEN Synth("EqualityFilter", filt.res, <<"EqualityFilter">>, <<>>, filt.key, filt.val, "")
        ELSE IF found.found /\ jq.st = "ok"
        THEN Synth("ExactPath", json_query_expr(jq.res), <<"EqualityFilter", "ExactPath">>,
                   found.path, None, None, "")
        ELSE IF proj.st = "ok"
        THEN Synth("Projection", proj.res, <<"EqualityFilter", "ExactPath", "Projection">>,
                   <<>>, proj.key, None, "")
        ELSE Synth("NoCandidate", None, <<"EqualityFilter", "ExactPath", "Projection">>,
                   <<>>, None, None, "")

\* Rules A, B, C, D of infer_filter_from_edit on source and the decoded
\* target. kind "raise" is an exception leaving the handler.
synthesize(source, target) ==
    LET found == find_subnode_path(source, target)
        jq == path_to_jmespath(found.path)
        proj == detect_projection(source, target)
        filt == detect_filter_by_equality(source, target)
    IN  IF found.found
        THEN IF jq.st = "raise"
             THEN Synth("raise", None, <<"ExactPath">>, found.path, None, None, jq.exc)
             ELSE Synth("ExactPath", json_query_expr(jq.res), <<"ExactPath">>,
                        found.path, None, None, "")
        ELSE IF proj.st = "raise"
             THEN Synth("raise", None, <<"ExactPath", "Projection">>, <<>>, None, None, proj.exc)
        ELSE IF proj.st = "ok"
             THEN Synth("Projection", proj.res, <<"ExactPath", "Projection">>,
                        <<>>, proj.key, None, "")
        ELSE IF filt.st = "raise"
             THEN Synth("raise", None, <<"ExactPath", "Projection", "EqualityFilter">>,
                        <<>>, None, None, filt.exc)
        ELSE IF filt.st = "ok"
             THEN Synth("EqualityFilter", filt.res,
                        <<"ExactPath", "Projection", "EqualityFilter">>,
                        <<>>, filt.key, filt.val, "")
        ELSE Synth("NoCandidate", None, <<"ExactPath", "Projection", "EqualityFilter">>,
                   <<>>, None, None, "")

\* What verify_pending shows for a pending suggestion, its target and the
\* selected value.
verify_pending(suggestion, target_obj, selected) ==
    IF suggestion = None \/ target_obj = None THEN Bar("hint", "none")
    ELSE LET result == evaluate_expression(suggestion, selected)
             loaded == yaml_or_json_load(result.res)
             obj == IF loaded.st = "ok" THEN loaded.res ELSE result.res.v
         IN  IF result.st = "raise" THEN Bar("verify_error", "false")
             ELSE IF deep_equal(obj, target_obj) THEN Bar("matches", "true")
             ELSE Bar("mismatch", "false")

----------------------------------------------------------------------------
(* The documents and targets of the model *)

MaxRows == 2      \* rows of a generated table
MaxDepth == 2     \* containers wrapped around the leaf of a generated tree

kA == VStr(sA)
kB == VStr(sB)

\* Field values of the rows of a table.
RowValues == {None, True, VInt(1)}

\* The rows a table starts with: mappings over the keys a and b, in either
\* insertion order.
FirstRows ==
    {VDict(<<>>)}
    \cup {VDict(<< <<k, x>> >>) : k \in {kA, kB}, x \in RowValues}
    \cup {VDict(<< <<kA, x>>, <<kB, y>> >>) : x \in RowValues, y \in RowValues}
    \cup {VDict(<< <<kB, y>>, <<kA, x>> >>) : x \in RowValues, y \in RowValues}

\* The rows that follow: both keys, or a alone, with null or 1 in them.
MoreRows ==
    {VDict(<< <<kA, x>> >>) : x \in {None, VInt(1)}}
    \cup {VDict(<< <<kA, x>>, <<kB, y>> >>) : x \in {None, VInt(1)}, y \in {None, VInt(1)}}

Tables ==
    UNION {{VList(<<first>> \o more) : first \in FirstRows, more \in [1..n -> MoreRows]}
           : n \in 0..(MaxRows - 1)}

\* Trees: a leaf wrapped in up to MaxDepth containers, each wrap a sequence
\* or a mapping that may hold a sibling before or after the wrapped value.
Leaves == {True, VInt(1), VStr(sA)}
Siblings == {True, VList(<<VInt(1)>>)}
kDash == VStr(sDash)

Wraps(x) ==
    {VList(<<x>>), VDict(<< <<kA, x>> >>), VDict(<< <<kDash, x>> >>)}
    \cup {VList(<<y, x>>) : y \in Siblings}
    \cup {VList(<<x, y>>) : y \in Siblings}
    \cup {VDict(<< <<kA, y>>, <<kB, x>> >>) : y \in Siblings}
    \cup {VDict(<< <<kB, x>>, <<kA, y>> >>) : y \in Siblings}

RECURSIVE TreesOfDepth(_)
TreesOfDepth(d) ==
    IF d = 0 THEN Leaves
    ELSE UNION {Wraps(x) : x \in TreesOfDepth(d - 1)}

Trees == UNION {TreesOfDepth(d) : d \in 0..MaxDepth}

RECURSIVE Descendants(_)
\* The value and every value below it.
Descendants(x) ==
    {x} \cup UNION {Descendants(Children(x)[i][2]) : i \in 1..Len(Children(x))}

RECURSIVE Conflate(_)
\* The value with every true replaced by 1 and every 1 by true.
Conflate(x) ==
    CASE x.t = "bool" /\ x.v = 1 -> VInt(1)
      [] x.t = "int" /\ x.v = 1 -> True
      [] x.t = "list" -> VList([i \in 1..Len(x.v) |-> Conflate(x.v[i])])
      [] x.t = "dict" -> VDict([i \in 1..Len(x.v) |-> <<x.v[i][1], Conflate(x.v[i][2])>>])
      [] OTHER -> x

IsTable(x) == IsList(x) /\ Len(x.v) > 0 /\ \A i \in 1..Len(x.v) : IsDict(x.v[i])

\* The column of a table under a key.
Column(x, k) == VList([i \in 1..Len(x.v) |-> dict_get(x.v[i], k)])

\* The tables made of the rows of x that a non-empty set of positions keeps.
RECURSIVE KeepRows(_, _, _)
KeepRows(rows, i, keep) ==
    IF i > Len(rows) THEN <<>>
    ELSE IF i \in keep THEN <<rows[i]>> \o KeepRows(rows, i + 1, keep)
    ELSE KeepRows(rows, i + 1, keep)

SubTables(x) == {VList(KeepRows(x.v, 1, keep)) : keep \in (SUBSET (1..Len(x.v))) \ {{}}}

\* The targets tried against a source: what the rules can reach from it,
\* the same with true and 1 exchanged, and a sequence one element longer.
Targets(x) ==
    LET reach == Descendants(x)
                 \cup (IF IsTable(x) THEN {Column(x, kA), Column(x, kB)} \cup SubTables(x)
                       ELSE {})
    IN  reach \cup {Conflate(y) : y \in reach}
        \cup (IF IsList(x) THEN {VList(Append(x.v, VInt(2)))} ELSE {})

\* The scenarios of the design document, and pairs with a NaN, a field value
\* that is a sequence, and a string the decoder refuses when rendered bare.
sName == <<110, 97, 109, 101>>
sRole == <<114, 111, 108, 101>>
sAdmin == <<97, 100, 109, 105, 110>>
sUser == <<117, 115, 101, 114>>
sId == <<105, 100>>
sStatus == <<115, 116, 97, 116, 117, 115>>
sOk == <<111, 107>>
sDown == <<100, 111, 119, 110>>
sC == <<99>>
sBrace == <<123>>

ScenarioA ==
    <<VList(<<VDict(<< <<VStr(sName), VStr(sA)>>, <<VStr(sRole), VStr(sAdmin)>> >>),
              VDict(<< <<VStr(sName), VStr(sB)>>, <<VStr(sRole), VStr(sUser)>> >>)>>),
      VList(<<VStr(sA), VStr(sB)>>)>>
ScenarioB ==
    <<VList(<<VDict(<< <<VStr(sId), VInt(1)>>, <<VStr(sStatus), VStr(sOk)>> >>),
              VDict(<< <<VStr(sId), VInt(2)>>, <<VStr(sStatus), VStr(sDown)>> >>)>>),
      VList(<<VDict(<< <<VStr(sId), VInt(2)>>, <<VStr(sStatus), VStr(sDown)>> >>)>>)>>
ScenarioC ==
    <<VDict(<< <<kA, VDict(<< <<kB, VDict(<< <<VStr(sC), VInt(42)>> >>)>> >>)>> >>),
      VInt(42)>>
ScenarioD ==
    <<VList(<<VInt(1), VInt(2), VInt(3)>>), VList(<<VInt(1), VInt(2), VInt(3), VInt(4)>>)>>

RowsWithSequences ==
    VList(<<VDict(<< <<kA, VList(<<VInt(1)>>)>>, <<kB, VInt(1)>> >>),
            VDict(<< <<kA, VList(<<VInt(2)>>)>>, <<kB, VInt(2)>> >>)>>)

ExtraPairs ==
    {ScenarioA, ScenarioB, ScenarioC, ScenarioD,
     <<VNaN, VNaN>>, <<VList(<<VNaN>>), VNaN>>, <<VDict(<< <<kA, VNaN>> >>), VNaN>>,
     <<VInt(1), VFloat(1)>>, <<VList(<<VFloat(1), VInt(1)>>), VInt(1)>>,
     <<RowsWithSequences, VList(<<RowsWithSequences.v[2]>>)>>,
     <<RowsWithSequences, VList(<<VInt(1), VInt(2)>>)>>,
     <<VDict(<< <<kA, VStr(sBrace)>> >>), VStr(sBrace)>>,
     <<VDict(<< <<kA, None>> >>), None>>,
     <<VList(<<VDict(<< <<kA, VList(<<VInt(1)>>)>> >>)>>),
       VList(<<VDict(<< <<kA, VList(<<VInt(2)>>)>> >>)>>)>>}

Sources == Tables \cup Trees

----------------------------------------------------------------------------
(* The session *)

\* The state __init__ leaves, with the inputs of the engine drawn from the
\* values above: the selected value (or none), and in the right editor a
\* typed target, nothing, or text that does not decode. The filters of
\* ansible's core FilterModule are loaded; whether json_query is among them
\* depends on the ansible installed. The data file is read once, by load_data
\* at on_mount; what it holds afterwards plays no part, and it is taken to
\* be empty by now.
Init ==
    /\ \/ \E x \in Sources \cup {p[1] : p \in ExtraPairs} :
             /\ data = VList(<<x>>)
             /\ selected_value = x
             /\ \/ \E y \in Targets(x) \cup {p[2] : p \in {q \in ExtraPairs : q[1] = x}} :
                      output_editor = Text("doc", y)
                \/ output_editor \in {EmptyText, Text("malformed", VStr(sBrace))}
       \/ /\ data = VList(<<ScenarioD[1]>>)
          /\ selected_value = None
          /\ output_editor = Text("doc", ScenarioD[2])
    /\ pending_suggestion = None
    /\ pending_target_obj = None
    /\ suggestion_bar = Bar("hint", "none")
    /\ j2_env \in {{"to_json"}, {"to_json", "json_query"}}
    /\ expr_input = EmptyExpr
    /\ data_file = EmptyText
    /\ data_load_error = None
    /\ edit_right = TRUE
    /\ heap = <<>>
    /\ queue = <<>>
    /\ seen_ids = {}
    /\ show_jmes_tester = FALSE
    /\ show_search = FALSE
    /\ jmes_input = <<>>
    /\ call = [op |-> "init"]

\* What a pending field holds after each way infer_filter_from_edit ends. The
\* early returns (no selection, empty editor, parse error) assign nothing.
discard_on_return(pending) == None

keep_on_return(pending) == pending

\* Lines 518-519: no rule produced a candidate.
keep_on_no_candidate(pending) == pending

clear_on_no_candidate(pending) == None

\* Lines 495-496, 503-504, 511-512: a rule produced a candidate.
drop_candidate(produced) == None

set_pending(produced) == produced

\* Ctrl+I: infer_filter_from_edit, with the verify_pending it ends in. An
\* exception raised by a rule leaves the handler before anything is assigned.
infer_filter_from_edit ==
    LET loaded == yaml_or_json_load(output_editor)
        target == loaded.res
        source == selected_value
        syn == synthesize(source, target)
        early(kind) == Synth(kind, None, <<>>, <<>>, None, None, "")
    IN  /\ UNCHANGED <<data, selected_value, output_editor, j2_env, expr_input,
                       data_file, data_load_error, edit_right, heap, queue,
                   seen_ids,
                   show_jmes_tester, show_search, jmes_input>>
        /\ IF selected_value = None
           THEN /\ suggestion_bar' = Bar("select_first", "false")
                /\ call' = [op |-> "infer", res |-> early("no_selection")]
                /\ pending_suggestion' = keep_on_return(pending_suggestion)
                /\ pending_target_obj' = keep_on_return(pending_target_obj)
           ELSE IF output_editor.kind = "empty"
           THEN /\ suggestion_bar' = Bar("editor_empty", "false")
                /\ call' = [op |-> "infer", res |-> early("empty_target")]
                /\ pending_suggestion' = keep_on_return(pending_suggestion)
                /\ pending_target_obj' = keep_on_return(pending_target_obj)
           ELSE IF loaded.st = "raise"
           THEN /\ suggestion_bar' = Bar("parse_error", "false")
                /\ call' = [op |-> "infer", res |-> early("parse_error")]
                /\ pending_suggestion' = keep_on_return(pending_suggestion)
                /\ pending_target_obj' = keep_on_return(pending_target_obj)
           ELSE IF syn.kind = "raise"
           THEN /\ call' = [op |-> "infer", res |-> syn]
                /\ UNCHANGED <<pending_suggestion, pending_target_obj, suggestion_bar>>
           ELSE IF syn.kind = "NoCandidate"
           THEN /\ pending_suggestion' = clear_on_no_candidate(pending_suggestion)
                /\ pending_target_obj' = clear_on_no_candidate(pending_target_obj)
                /\ suggestion_bar' = Bar("no_candidate", "false")
                /\ call' = [op |-> "infer", res |-> syn]
           ELSE /\ pending_suggestion' = set_pending(syn.cand)
                /\ pending_target_obj' = set_pending(target)
                /\ suggestion_bar' = verify_pending(syn.cand, target, selected_value)
                /\ call' = [op |-> "infer", res |-> syn]

\* The helpers called on their own, on the selected value and the decoded
\* target of a fresh session.
Fresh == call.op = "init" /\ selected_value # None /\ output_editor.kind = "doc"

call_deep_equal ==
    /\ Fresh
    /\ call' = [op |-> "deep_equal", res |-> deep_equal(selected_value, output_editor.v)]
    /\ UNCHANGED <<data, selected_value, output_editor, pending_suggestion,
                   pending_target_obj, suggestion_bar, j2_env, expr_input,
                   data_file, data_load_error, edit_right, heap, queue,
                   seen_ids,
                   show_jmes_tester, show_search, jmes_input>>

call_find_subnode_path ==
    /\ Fresh
    /\ call' = [op |-> "find_subnode_path",
                res |-> find_subnode_path(selected_value, output_editor.v)]
    /\ UNCHANGED <<data, selected_value, output_editor, pending_suggestion,
                   pending_target_obj, suggestion_bar, j2_env, expr_input,
                   data_file, data_load_error, edit_right, heap, queue,
                   seen_ids,
                   show_jmes_tester, show_search, jmes_input>>

call_detect_projection ==
    /\ Fresh
    /\ call' = [op |-> "detect_projection",
                res |-> detect_projection(selected_value, output_editor.v)]
    /\ UNCHANGED <<data, selected_value, output_editor, pending_suggestion,
                   pending_target_obj, suggestion_bar, j2_env, expr_input,
                   data_file, data_load_error, edit_right, heap, queue,
                   seen_ids,
                   show_jmes_tester, show_search, jmes_input>>

call_detect_filter_by_equality ==
    /\ Fresh
    /\ call' = [op |-> "detect_filter_by_equality",
                res |-> detect_filter_by_equality(selected_value, output_editor.v)]
    /\ UNCHANGED <<data, selected_value, output_editor, pending_suggestion,
                   pending_target_obj, suggestion_bar, j2_env, expr_input,
                   data_file, data_load_error, edit_right, heap, queue,
                   seen_ids,
                   show_jmes_tester, show_search, jmes_input>>

Next == infer_filter_from_edit

Spec == Init /\ [][Next]_vars

\* The helpers exercised one by one on the same sessions.
NextHelpers ==
    \/ call_deep_equal
    \/ call_find_subnode_path
    \/ call_detect_projection
    \/ call_detect_filter_by_equality

SpecHelpers == Init /\ [][NextHelpers]_vars

----------------------------------------------------------------------------
(* The handlers of a session *)

\* The texts refresh_output writes into the right editor. The text of an
\* exception is the library's; the model keeps one text for each kind.
sEnterExpression == <<69, 110, 116, 101, 114, 32, 97, 32, 74, 105, 110, 106, 97, 50, 32, 101, 120, 112, 114, 101, 115, 115, 105, 111, 110, 32, 98, 101, 108, 111, 119, 32, 116, 111, 32, 115, 101, 101, 32, 114, 101, 115, 117, 108, 116, 115, 46>>
sSyntaxError == <<74, 105, 110, 106, 97, 50, 32, 83, 121, 110, 116, 97, 120, 32, 69, 114, 114, 111, 114>>
sRuntimeError == <<82, 117, 110, 116, 105, 109, 101, 32, 69, 114, 114, 111, 114>>
Notice(words) == Text("doc", VStr(words))

\* refresh_output: the text it leaves in the right editor ...
refresh_output_text(expr, selected) ==
    LET result == evaluate_expression(expr, selected)
        loaded == yaml_or_json_load(result.res)
    IN  IF expr.t = "blank" \/ selected = None THEN Notice(sEnterExpression)
        ELSE IF result.st = "raise"
             THEN IF result.exc = "TemplateSyntaxError" THEN Notice(sSyntaxError)
                  ELSE Notice(sRuntimeError)
        ELSE IF loaded.st = "ok" THEN Text("doc", loaded.res)
        ELSE result.res

\* ... and the suggestion bar after it: verify_pending runs only when the
\* expression is not blank, a value is selected, the expression evaluates
\* and a target is pending.
refresh_output_bar(expr, selected, bar) ==
    IF expr.t = "blank" \/ selected = None THEN bar
    ELSE IF evaluate_expression(expr, selected).st = "raise" THEN bar
    ELSE IF pending_target_obj # None
         THEN verify_pending(pending_suggestion, pending_target_obj, selected)
    ELSE bar

\* self.node_map: the path of every node build_tree adds.
RECURSIVE node_map(_, _)
node_map(value, path) ==
    {path} \cup UNION {node_map(Children(value)[i][2], Append(path, Children(value)[i][1]))
                       : i \in 1..Len(Children(value))}

\* on_tree_node_selected: a node of the tree is selected.
on_tree_node_selected ==
    /\ data # None
    /\ \E path \in node_map(data, <<>>) :
          LET selected == get_value_at_path(path, data)
          IN  /\ selected_value' = selected
              /\ output_editor' = refresh_output_text(expr_input, selected)
              /\ suggestion_bar' = refresh_output_bar(expr_input, selected, suggestion_bar)
              /\ call' = [op |-> "select", path |-> path]
    /\ UNCHANGED <<data, pending_suggestion, pending_target_obj, j2_env, expr_input,
                   data_file, data_load_error, edit_right, heap, queue,
                   seen_ids,
                   show_jmes_tester, show_search, jmes_input>>

\* on_text_area_changed for the main expression: the user types an expression.
on_text_area_changed ==
    /\ \E expr \in {EmptyExpr, UnclosedExpr, json_query_expr(<<Piece("current", None)>>)} :
          /\ expr # expr_input
          /\ expr_input' = expr
          /\ output_editor' = refresh_output_text(expr, selected_value)
          /\ suggestion_bar' = refresh_output_bar(expr, selected_value, suggestion_bar)
    /\ call' = [op |-> "expr_changed"]
    /\ UNCHANGED <<data, selected_value, pending_suggestion, pending_target_obj, j2_env,
                   data_file, data_load_error, edit_right, heap, queue,
                   seen_ids,
                   show_jmes_tester, show_search, jmes_input>>

\* on_key, ctrl+e: the right editor is switched between read-only and editing.
on_key_ctrl_e ==
    /\ edit_right' = ~edit_right
    /\ suggestion_bar' = Bar("editing", "none")
    /\ call' = [op |-> "ctrl+e"]
    /\ UNCHANGED <<data, selected_value, output_editor, pending_suggestion,
                   pending_target_obj, j2_env, expr_input, data_file, data_load_error, heap, queue,
                   seen_ids,
                   show_jmes_tester, show_search, jmes_input>>

\* Typing in the right editor while it accepts typing: on_text_area_changed
\* does nothing for this control.
TypedTargets ==
    {Text("doc", VList(<<VInt(1)>>)), Text("doc", VInt(1)), Text("doc", VList(<<VInt(3)>>)),
     Text("doc", None), Text("malformed", VStr(sBrace)), EmptyText}

type_target ==
    /\ edit_right
    /\ \E text \in TypedTargets : text # output_editor /\ output_editor' = text
    /\ call' = [op |-> "typed"]
    /\ UNCHANGED <<data, selected_value, pending_suggestion, pending_target_obj,
                   suggestion_bar, j2_env, expr_input, data_file, data_load_error,
                   edit_right, heap, queue,
                   seen_ids,
                   show_jmes_tester, show_search, jmes_input>>

\* on_key, ctrl+y with a pending suggestion: it becomes the main expression.
\* While the tester is open the key is taken by the tester (lines 278-288).
on_key_ctrl_y ==
    /\ ~show_jmes_tester
    /\ pending_suggestion # None
    /\ expr_input' = pending_suggestion
    /\ output_editor' = refresh_output_text(pending_suggestion, selected_value)
    /\ suggestion_bar' = refresh_output_bar(pending_suggestion, selected_value,
                                            Bar("inserted", "true"))
    /\ call' = [op |-> "ctrl+y"]
    /\ UNCHANGED <<data, selected_value, pending_suggestion, pending_target_obj, j2_env,
                   data_file, data_load_error, edit_right, heap, queue,
                   seen_ids,
                   show_jmes_tester, show_search, jmes_input>>

\* The documents of a session: a mapping of two sequences.
SessionDocs ==
    {VDict(<< <<kA, VList(<<VInt(1)>>)>>, <<kB, VList(<<VInt(2)>>)>> >>)}

\* A session after on_mount built the tree of a loaded document.
InitSession ==
    /\ data \in SessionDocs
    /\ data_file = Text("doc", data)
    /\ data_load_error = None
    /\ selected_value = None
    /\ output_editor = EmptyText
    /\ expr_input = EmptyExpr
    /\ edit_right = FALSE
    /\ heap = <<>>
    /\ queue = <<>>
    /\ seen_ids = {}
    /\ show_jmes_tester = FALSE
    /\ show_search = FALSE
    /\ jmes_input = <<>>
    /\ pending_suggestion = None
    /\ pending_target_obj = None
    /\ suggestion_bar = Bar("hint", "none")
    /\ j2_env \in {{"to_json"}, {"to_json", "json_query"}}
    /\ call = [op |-> "init"]

NextSession ==
    \/ on_tree_node_selected
    \/ on_text_area_changed
    \/ on_key_ctrl_e
    \/ type_target
    \/ infer_filter_from_edit
    \/ on_key_ctrl_y

SpecSession == InitSession /\ [][NextSession]_vars

-----------------------------------------------------------------------------
(* The tester and search keys *)

\* Line 546: self.show_jmes_tester after toggle_jmes_tester(close), from
\* what it was: "not close if not self.show_jmes_tester else (not close)".
toggle_jmes_tester(shown, close) == IF ~shown THEN ~close ELSE ~close

\* What can be typed into the line the tester and the search share: nothing,
\* or the query a.
TypedQueries == {<<>>, <<Piece("field", kA)>>}

\* The query the tester runs or inserts: the typed one, or "@" for none.
query_or_current(typed) == IF typed = <<>> THEN <<Piece("current", None)>> ELSE typed

\* data_tree.select_node(...) for the node at path, with the
\* on_tree_node_selected it sets off.
select_node(path) ==
    LET selected == get_value_at_path(path, data)
    IN  /\ selected_value' = selected
        /\ output_editor' = refresh_output_text(expr_input, selected)
        /\ suggestion_bar' = refresh_output_bar(expr_input, selected, suggestion_bar)

\* on_key, ctrl+j: toggle_jmes_tester() with close left False. The open
\* branch (lines 547-556) empties the query.
on_key_ctrl_j ==
    /\ show_jmes_tester' = toggle_jmes_tester(show_jmes_tester, FALSE)
    /\ jmes_input' = IF show_jmes_tester' THEN <<>> ELSE jmes_input
    /\ call' = [op |-> "ctrl+j"]
    /\ UNCHANGED <<data, selected_value, output_editor, pending_suggestion,
                   pending_target_obj, suggestion_bar, j2_env, expr_input,
                   data_file, data_load_error, edit_right, heap, queue, seen_ids,
                   show_search>>

\* on_key, escape: it closes the tester if that is open (lines 289-291), or
\* else the search (lines 301-303).
on_key_escape ==
    /\ show_jmes_tester \/ show_search
    /\ IF show_jmes_tester
       THEN /\ show_jmes_tester' = toggle_jmes_tester(show_jmes_tester, TRUE)
            /\ UNCHANGED show_search
       ELSE /\ show_search' = FALSE
            /\ UNCHANGED show_jmes_tester
    /\ call' = [op |-> "escape"]
    /\ UNCHANGED <<data, selected_value, output_editor, pending_suggestion,
                   pending_target_obj, suggestion_bar, j2_env, expr_input,
                   data_file, data_load_error, edit_right, heap, queue, seen_ids,
                   jmes_input>>

\* on_key, enter: run_jmes_query in the tester (lines 279-281, 565-580),
\* which shows its result in the popup; or else next_match of the search
\* (lines 304-307), which selects one of the nodes the search found, if any.
on_key_enter ==
    /\ show_jmes_tester \/ show_search
    /\ IF show_jmes_tester
       THEN /\ jmes_input' = IF selected_value = None THEN jmes_input
                             ELSE query_or_current(jmes_input)
            /\ call' = [op |-> "enter", ran |-> selected_value # None]
            /\ UNCHANGED <<selected_value, output_editor, suggestion_bar>>
       ELSE /\ \/ \E path \in node_map(data, <<>>) :
                     select_node(path) /\ call' = [op |-> "enter", ran |-> FALSE]
               \/ /\ call' = [op |-> "enter", ran |-> FALSE]
                  /\ UNCHANGED <<selected_value, output_editor, suggestion_bar>>
            /\ UNCHANGED jmes_input
    /\ UNCHANGED <<data, pending_suggestion, pending_target_obj, j2_env, expr_input,
                   data_file, data_load_error, edit_right, heap, queue, seen_ids,
                   show_jmes_tester, show_search>>

\* on_key, ctrl+y in the tester (lines 282-288): the query becomes the main
\* expression, the tester closes, the output is refreshed.
on_key_ctrl_y_tester ==
    /\ show_jmes_tester
    /\ LET expr == json_query_expr(query_or_current(jmes_input))
       IN  /\ expr_input' = expr
           /\ output_editor' = refresh_output_text(expr, selected_value)
           /\ suggestion_bar' = refresh_output_bar(expr, selected_value, suggestion_bar)
    /\ show_jmes_tester' = toggle_jmes_tester(show_jmes_tester, TRUE)
    /\ call' = [op |-> "ctrl+y"]
    /\ UNCHANGED <<data, selected_value, pending_suggestion, pending_target_obj, j2_env,
                   data_file, data_load_error, edit_right, heap, queue, seen_ids,
                   show_search, jmes_input>>

\* on_key, ctrl+f: toggle_search() with close left False (lines 294-296,
\* 405-407).
on_key_ctrl_f ==
    /\ show_search' = TRUE
    /\ call' = [op |-> "ctrl+f"]
    /\ UNCHANGED <<data, selected_value, output_editor, pending_suggestion,
                   pending_target_obj, suggestion_bar, j2_env, expr_input,
                   data_file, data_load_error, edit_right, heap, queue, seen_ids,
                   show_jmes_tester, jmes_input>>

\* on_input_changed: typing into the shared line. With the search open the
\* search runs and selects its first match, if it has one; with the tester
\* open the text becomes the tester's query.
on_input_changed ==
    /\ show_jmes_tester \/ show_search
    /\ \E typed \in TypedQueries :
          /\ jmes_input' = IF show_jmes_tester THEN typed ELSE jmes_input
          /\ call' = [op |-> "input_changed", typed |-> typed]
    /\ IF show_search
       THEN \/ \E path \in node_map(data, <<>>) : select_node(path)
            \/ UNCHANGED <<selected_value, output_editor, suggestion_bar>>
       ELSE UNCHANGED <<selected_value, output_editor, suggestion_bar>>
    /\ UNCHANGED <<data, pending_suggestion, pending_target_obj, j2_env, expr_input,
                   data_file, data_load_error, edit_right, heap, queue, seen_ids,
                   show_jmes_tester, show_search>>

\* The document of these sessions: a mapping with a null in it.
EventDocs ==
    {VDict(<< <<kA, None>> >>)}

\* A session whose data file was loaded into the tree.
InitEvents ==
    /\ data \in EventDocs
    /\ data_file = Text("doc", data)
    /\ data_load_error = None
    /\ selected_value = None
    /\ output_editor = EmptyText
    /\ expr_input = EmptyExpr
    /\ edit_right = FALSE
    /\ heap = <<>>
    /\ queue = <<>>
    /\ seen_ids = {}
    /\ show_jmes_tester = FALSE
    /\ show_search = FALSE
    /\ jmes_input = <<>>
    /\ pending_suggestion = None
    /\ pending_target_obj = None
    /\ suggestion_bar = Bar("hint", "none")
    /\ j2_env = {"to_json", "json_query"}
    /\ call = [op |-> "init"]

NextEvents ==
    \/ on_tree_node_selected
    \/ on_text_area_changed
    \/ on_key_ctrl_e
    \/ type_target
    \/ infer_filter_from_edit
    \/ on_key_ctrl_y
    \/ on_key_ctrl_j
    \/ on_key_escape
    \/ on_key_enter
    \/ on_key_ctrl_y_tester
    \/ on_key_ctrl_f
    \/ on_input_changed

SpecEvents == InitEvents /\ [][NextEvents]_vars

----------------------------------------------------------------------------
(* Documents whose mapping keys are not all strings *)

\* The keys the decoder hands out: strings (an identifier, one with a dash,
\* one with a quote), an int, a bool, a float and null.
sQuote == <<97, 39, 98>>
Keys == {kA, kDash, VStr(sQuote), VInt(1), True, VFloat(1), None}

\* A leaf under one key, under two nested keys, in a mapping inside a
\* sequence, and a row with two keys.
KeyedSources ==
    {VDict(<< <<k, VStr(sB)>> >>) : k \in Keys}
    \cup {VDict(<< <<k, VDict(<< <<j, VStr(sB)>> >>)>> >>) : k \in Keys, j \in Keys}
    \cup {VList(<<VStr(sA), VDict(<< <<k, VStr(sB)>> >>)>>) : k \in Keys}
    \cup {VList(<<VDict(<< <<k, VStr(sB)>>, <<j, VStr(sA)>> >>)>>) :
             k \in {kA, VInt(1)}, j \in {kB, None}}
    \cup {RowsWithSequences}

KeyedTargets(x) ==
    {x, VStr(sB), VList(<<VStr(sA)>>), VList(<<VStr(sC)>>),
     VList(<<RowsWithSequences.v[2]>>)}
    \cup (IF IsList(x) THEN {VList(<<x.v[Len(x.v)]>>)} ELSE {})

InitKeys ==
    /\ \E x \in KeyedSources :
          /\ data = VList(<<x>>)
          /\ data_file = Text("doc", VList(<<x>>))
          /\ selected_value = x
          /\ \E y \in KeyedTargets(x) : output_editor = Text("doc", y)
    /\ pending_suggestion = None
    /\ pending_target_obj = None
    /\ suggestion_bar = Bar("hint", "none")
    /\ j2_env \in {{"to_json"}, {"to_json", "json_query"}}
    /\ expr_input = EmptyExpr
    /\ data_load_error = None
    /\ edit_right = TRUE
    /\ heap = <<>>
    /\ queue = <<>>
    /\ seen_ids = {}
    /\ show_jmes_tester = FALSE
    /\ show_search = FALSE
    /\ jmes_input = <<>>
    /\ call = [op |-> "init"]

\* path_to_jmespath called on the path find_subnode_path returns.
call_path_to_jmespath ==
    /\ Fresh
    /\ find_subnode_path(selected_value, output_editor.v).found
    /\ LET path == find_subnode_path(selected_value, output_editor.v).path
       IN  call' = [op |-> "path_to_jmespath", path |-> path, res |-> path_to_jmespath(path)]
    /\ UNCHANGED <<data, selected_value, output_editor, pending_suggestion,
                   pending_target_obj, suggestion_bar, j2_env, expr_input,
                   data_file, data_load_error, edit_right, heap, queue,
                   seen_ids,
                   show_jmes_tester, show_search, jmes_input>>

NextKeys ==
    \/ infer_filter_from_edit
    \/ call_path_to_jmespath

SpecKeys == InitKeys /\ [][NextKeys]_vars

-----------------------------------------------------------------------------
(* Decoding a text and loading the data file *)

DecodedTexts ==
    {Text("doc", VDict(<<<<kA, VList(<<VInt(1)>>)>>, <<kB, VList(<<VInt(2)>>)>>>>)),
     Text("doc", VList(<<VInt(1)>>)),
     Text("doc", VInt(1)),
     Text("doc", None),
     EmptyText,
     Text("malformed", VStr(sBrace)),
     Text("json_only", VDict(<<<<kA, VInt(2)>>>>)),
     Text("json_only", VList(<<VInt(1)>>))}

DataFiles == DecodedTexts \cup {Text("unreadable", None)}

\* The application object after __init__ (lines 160-184), before on_mount.
InitLoad ==
    /\ data = None
    /\ data_file \in DataFiles
    /\ data_load_error = None
    /\ selected_value = None
    /\ output_editor \in DecodedTexts
    /\ pending_suggestion = None
    /\ pending_target_obj = None
    /\ suggestion_bar = Bar("hint", "none")
    /\ j2_env \in {{"to_json", "json_query"}, {"to_json"}}
    /\ expr_input = EmptyExpr
    /\ edit_right = FALSE
    /\ heap = <<>>
    /\ queue = <<>>
    /\ seen_ids = {}
    /\ show_jmes_tester = FALSE
    /\ show_search = FALSE
    /\ jmes_input = <<>>
    /\ call = [op |-> "init"]

\* on_mount up to the tree: self.data = self.load_data(). An exception of
\* load_data leaves on_mount at line 238 with nothing assigned.
on_mount ==
    /\ call.op = "init"
    /\ LET r == load_data(data_file)
       IN  /\ call' = [op |-> "on_mount", res |-> r]
           /\ IF r.st = "raise"
              THEN UNCHANGED <<data, suggestion_bar>>
              ELSE data' = r.res /\ suggestion_bar' = Bar("hint", "none")
    /\ UNCHANGED <<data_load_error, selected_value, output_editor, pending_suggestion,
                   pending_target_obj, j2_env, expr_input, data_file, edit_right, heap, queue,
                   seen_ids,
                   show_jmes_tester, show_search, jmes_input>>

call_yaml_or_json_load ==
    /\ call' = [op |-> "yaml_or_json_load", file |-> "this2that.py",
                text |-> output_editor, res |-> yaml_or_json_load(output_editor)]
    /\ UNCHANGED <<data, selected_value, output_editor, pending_suggestion,
                   pending_target_obj, suggestion_bar, j2_env, expr_input,
                   data_file, data_load_error, edit_right, heap, queue,
                   seen_ids,
                   show_jmes_tester, show_search, jmes_input>>

call_yaml_or_json_load_fallback ==
    /\ call' = [op |-> "yaml_or_json_load", file |-> "this2that2.py",
                text |-> output_editor, res |-> yaml_or_json_load_fallback(output_editor)]
    /\ UNCHANGED <<data, selected_value, output_editor, pending_suggestion,
                   pending_target_obj, suggestion_bar, j2_env, expr_input,
                   data_file, data_load_error, edit_right, heap, queue,
                   seen_ids,
                   show_jmes_tester, show_search, jmes_input>>

NextLoad ==
    \/ on_mount
    \/ call_yaml_or_json_load
    \/ call_yaml_or_json_load_fallback

SpecLoad == InitLoad /\ [][NextLoad]_vars

-----------------------------------------------------------------------------
(* find_subnode_path on an object graph *)

MaxObjects == 3      \* containers of a generated graph
MaxItems == 2        \* items of a generated container

\* An item of a container is a reference to a container, named by the
\* container's identity (what id(node) gives), or a scalar (ref 0).
Ref(o) == [ref |-> o, val |-> None]
Scalar(x) == [ref |-> 0, val |-> x]

GraphItems == {Ref(o) : o \in 1..MaxObjects} \cup {Scalar(VInt(1))}
GraphObjects ==
    [kind : {"list", "dict"}, items : UNION {[1..n -> GraphItems] : n \in 0..MaxItems}]

\* The graphs: object 1 is the root, a list or a dict; of the others the
\* even ones are lists and the odd ones dicts. Any object may hold any object,
\* itself included, any number of times.
Heaps ==
    {h \in [1..MaxObjects -> GraphObjects] :
        \A o \in 2..MaxObjects : h[o].kind = IF o % 2 = 0 THEN "list" ELSE "dict"}

DictKey(i) == VStr(<<96 + i>>)

\* node.items() / enumerate(node) of a container of the graph, as
\* <<segment, item>>; a scalar has none.
heap_children(node) ==
    IF node.ref = 0 THEN <<>>
    ELSE LET o == heap[node.ref]
         IN  [i \in 1..Len(o.items) |->
                 <<IF o.kind = "dict" THEN DictKey(i) ELSE VInt(i - 1), o.items[i]>>]

RECURSIVE heap_equal(_, _)
\* deep_equal(node, target) for a node of the graph and a decoded target: the
\* comparison descends the two together, so it ends with the target.
heap_equal(node, target) ==
    IF node.ref = 0 THEN deep_equal(node.val, target)
    ELSE LET o == heap[node.ref]
         IN  /\ o.kind = target.t
             /\ Len(o.items) = Len(target.v)
             /\ \A i \in 1..Len(o.items) :
                    IF o.kind = "list" THEN heap_equal(o.items[i], target.v[i])
                    ELSE \E j \in 1..Len(target.v) :
                            /\ target.v[j][1] = DictKey(i)
                            /\ heap_equal(o.items[i], target.v[j][2])

\* The first child (in iteration order) equal to target, 0 if none.
heap_first_match(kids, target) ==
    IF \E i \in 1..Len(kids) : heap_equal(kids[i][2], target)
    THEN CHOOSE i \in 1..Len(kids) :
            /\ heap_equal(kids[i][2], target)
            /\ \A j \in 1..(i - 1) : ~heap_equal(kids[j][2], target)
    ELSE 0

\* The seen test with every node taken as new.
never_seen(node, ids) == FALSE

\* id(node) in seen (line 44). Only the identities of containers are kept:
\* a scalar has no children, so skipping it or not changes nothing.
already_seen(node, ids) == node.ref \in ids

\* No more entries than the root and one per item of every container.
QueueCap == 1 + MaxObjects * MaxItems

GraphTargets ==
    {VInt(1), VInt(2), VList(<<VInt(1)>>), VList(<<VList(<<VInt(1)>>)>>),
     VDict(<<<<DictKey(1), VInt(1)>>>>)}

InitGraph ==
    /\ heap \in Heaps
    /\ queue = <<>>
    /\ seen_ids = {}
    /\ show_jmes_tester = FALSE
    /\ show_search = FALSE
    /\ jmes_input = <<>>
    /\ data = None
    /\ selected_value = None
    /\ output_editor = EmptyText
    /\ pending_suggestion = None
    /\ pending_target_obj = None
    /\ suggestion_bar = Bar("hint", "none")
    /\ j2_env = {"to_json", "json_query"}
    /\ expr_input = EmptyExpr
    /\ data_file = EmptyText
    /\ data_load_error = None
    /\ edit_right = FALSE
    /\ call = [op |-> "init"]

\* Lines 37-40: the root is compared first, then the loop starts on it.
\* call.expanded counts, per container, how often its children were iterated;
\* call.skipped tells that a container was met again and passed over.
find_subnode_path_enter ==
    /\ call.op = "init"
    /\ \E target \in GraphTargets :
          LET root_match == heap_equal(Ref(1), target)
          IN  /\ call' = [op |-> "find_subnode_path", target |-> target,
                          pc |-> IF root_match THEN "done" ELSE "loop",
                          res |-> IF root_match THEN Found(<<>>) ELSE NotFound,
                          expanded |-> [o \in 1..MaxObjects |-> 0],
                          skipped |-> FALSE]
              /\ queue' = IF root_match THEN <<>> ELSE <<[path |-> <<>>, node |-> Ref(1)]>>
    /\ seen_ids' = {}
    /\ UNCHANGED <<data, selected_value, output_editor, pending_suggestion,
                   pending_target_obj, suggestion_bar, j2_env, expr_input,
                   data_file, data_load_error, edit_right, heap,
                   show_jmes_tester, show_search, jmes_input>>

\* Lines 41-59: one turn of the while loop, or its end when q is empty.
find_subnode_path_loop ==
    /\ call.op = "find_subnode_path"
    /\ call.pc = "loop"
    /\ Len(queue) <= QueueCap
    /\ IF queue = <<>>
       THEN /\ call' = [call EXCEPT !.pc = "done", !.res = NotFound]
            /\ UNCHANGED <<queue, seen_ids>>
       ELSE LET path == Head(queue).path
                node == Head(queue).node
                kids == heap_children(node)
                m == heap_first_match(kids, call.target)
                entry(i) == [path |-> Append(path, kids[i][1]), node |-> kids[i][2]]
            IN  IF node.ref = 0
                THEN /\ queue' = Tail(queue)
                     /\ UNCHANGED <<seen_ids, call>>
                ELSE IF already_seen(node, seen_ids)
                THEN /\ queue' = Tail(queue)
                     /\ call' = [call EXCEPT !.skipped = TRUE]
                     /\ UNCHANGED seen_ids
                ELSE /\ seen_ids' = seen_ids \cup {node.ref}
                     /\ queue' = Tail(queue) \o
                                 [i \in 1..(IF m = 0 THEN Len(kids) ELSE m - 1) |-> entry(i)]
                     /\ call' = [call EXCEPT
                                    !.expanded[node.ref] = @ + 1,
                                    !.pc = IF m = 0 THEN "loop" ELSE "done",
                                    !.res = IF m = 0 THEN NotFound
                                            ELSE Found(Append(path, kids[m][1]))]
    /\ UNCHANGED <<data, selected_value, output_editor, pending_suggestion,
                   pending_target_obj, suggestion_bar, j2_env, expr_input,
                   data_file, data_load_error, edit_right, heap,
                   show_jmes_tester, show_search, jmes_input>>

NextGraph ==
    \/ find_subnode_path_enter
    \/ find_subnode_path_loop

\* The loop runs in one thread until it returns: a turn that can be taken is
\* taken.
SpecGraph == InitGraph /\ [][NextGraph]_vars /\ WF_vars(find_subnode_path_loop)

----------------------------------------------------------------------------
(* The vocabulary of the design document *)

\* The source and the decoded target of the session.
Source == selected_value
Target == output_editor.v

RECURSIVE structurallyEqual(_, _)
\* Structural equality as the design document defines it: mappings by key
\* set and values, sequences element by element in order, scalars by type
\* and value.
structurallyEqual(a, b) ==
    IF a.t # b.t THEN FALSE
    ELSE CASE a.t = "list" ->
                 /\ Len(a.v) = Len(b.v)
                 /\ \A i \in 1..Len(a.v) : structurallyEqual(a.v[i], b.v[i])
           [] a.t = "dict" ->
                 /\ Len(a.v) = Len(b.v)
                 /\ \A i \in 1..Len(a.v) : \E j \in 1..Len(b.v) :
                        /\ structurallyEqual(a.v[i][1], b.v[j][1])
                        /\ structurallyEqual(a.v[i][2], b.v[j][2])
           [] OTHER -> a.v = b.v

IsScalar(x) == ~(IsList(x) \/ IsDict(x))

RECURSIVE Nodes(_, _, _)
\* Every node of a value: its path, its position (the child indices from
\* the root, which order nodes of one depth as the traversal meets them)
\* and its value.
Nodes(x, path, pos) ==
    {[path |-> path, pos |-> pos, val |-> x]}
    \cup UNION {Nodes(Children(x)[i][2], Append(path, Children(x)[i][1]), Append(pos, i))
                : i \in 1..Len(Children(x))}

NodesOf(x) == Nodes(x, <<>>, <<>>)

RECURSIVE PosLess(_, _)
PosLess(p, q) ==
    IF p = <<>> \/ q = <<>> THEN FALSE
    ELSE IF Head(p) # Head(q) THEN Head(p) < Head(q)
    ELSE PosLess(Tail(p), Tail(q))

Inferred == call.op = "infer"
Candidates == {"ExactPath", "Projection", "EqualityFilter"}

----------------------------------------------------------------------------
(* Claims *)

\* C1: infer_filter_from_edit enters ExactPath, Projection, EqualityFilter in
\* that order and keeps the candidate of the first rule that succeeds: when
\* the path search finds a path the candidate is the ExactPath one and no
\* later rule is entered, Projection is entered only after the path search
\* found nothing, EqualityFilter only after Projection failed as well, and
\* the candidate kept is the one the last rule entered returned.
C1_RuleOrder ==
    (Inferred /\ call.res.attempted # <<>>) =>
        LET found == find_subnode_path(Source, Target)
            proj == detect_projection(Source, Target)
            filt == detect_filter_by_equality(Source, Target)
            res == call.res
        IN  /\ found.found =>
                  /\ res.kind = "ExactPath"
                  /\ res.attempted = <<"ExactPath">>
                  /\ pending_suggestion = json_query_expr(path_to_jmespath(found.path).res)
            /\ (~found.found /\ proj.st = "ok") =>
                  /\ res.kind = "Projection"
                  /\ res.attempted = <<"ExactPath", "Projection">>
                  /\ pending_suggestion = proj.res
            /\ (\E i \in 1..Len(res.attempted) : res.attempted[i] = "EqualityFilter") =>
                  /\ ~found.found /\ proj.st = "none"
                  /\ res.attempted = <<"ExactPath", "Projection", "EqualityFilter">>
            /\ res.kind = "EqualityFilter" =>
                  /\ filt.st = "ok"
                  /\ pending_suggestion = filt.res
            /\ res.kind = "NoCandidate" =>
                  ~found.found /\ proj.st = "none" /\ filt.st = "none"

\* C1 witness: a request for which both ExactPath and EqualityFilter would
\* succeed, answered with the ExactPath candidate.
C1_Witness ==
    /\ Inferred
    /\ call.res.kind = "ExactPath"
    /\ detect_filter_by_equality(Source, Target).st = "ok"

\* The keys every row of a table has, and the keys any row has.
CommonKeys(x) ==
    {k \in {x.v[1].v[i][1] : i \in 1..Len(x.v[1].v)} :
        \A n \in 1..Len(x.v) : \E i \in 1..Len(x.v[n].v) : x.v[n].v[i][1] = k}
UnionKeys(x) ==
    UNION {{x.v[n].v[i][1] : i \in 1..Len(x.v[n].v)} : n \in 1..Len(x.v)}

\* The value of a row under a key, null when the row has no such key.
Field(row, k) ==
    IF \E i \in 1..Len(row.v) : row.v[i][1] = k
    THEN row.v[CHOOSE i \in 1..Len(row.v) : row.v[i][1] = k][2]
    ELSE VNull

\* The keys whose projection of the table x is structurally equal to y.
ProjectingKeys(x, y) ==
    {k \in CommonKeys(x) :
        structurallyEqual(VList([n \in 1..Len(x.v) |-> Field(x.v[n], k)]), y)}

\* The keys k for which the rows of y share one value v and the rows of x
\* whose k is v, in order, are structurally equal to y.
FilteringKeys(x, y) ==
    {k \in UnionKeys(x) :
        LET v == Field(y.v[1], k)
        IN  /\ \A n \in 1..Len(y.v) : structurallyEqual(Field(y.v[n], k), v)
            /\ structurallyEqual(
                   VList(KeepRows(x.v, 1, {n \in 1..Len(x.v) :
                                             structurallyEqual(Field(x.v[n], k), v)})),
                   y)}

\* C2: on a non-empty sequence of mappings and a target sequence,
\* detect_projection succeeds exactly when some key common to every source
\* element projects the source onto a sequence structurally equal to the
\* target, and the key it reports is the smallest such key.
C2_ProjectionSmallestMatchingKey ==
    (call.op = "detect_projection" /\ IsTable(Source) /\ IsList(Target)) =>
        LET matching == ProjectingKeys(Source, Target)
        IN  /\ (call.res.st = "ok") <=> (matching # {})
            /\ call.res.st = "ok" =>
                  /\ call.res.key \in matching
                  /\ \A k \in matching : ~KeyLess(k, call.res.key)

\* C2, the part that holds: with equality taken as the code takes it, the
\* key reported is the smallest common key whose projection equals the target.
C2_SmallestKeyUnderHostEquality ==
    (call.op = "detect_projection" /\ IsTable(Source) /\ IsList(Target)) =>
        LET matching == {k \in CommonKeys(Source) : deep_equal(Column(Source, k), Target)}
        IN  /\ (call.res.st = "ok") <=> (matching # {})
            /\ call.res.st = "ok" =>
                  /\ call.res.key \in matching
                  /\ \A k \in matching : ~KeyLess(k, call.res.key)

\* C3: on non-empty sequences of mappings, detect_filter_by_equality returns
\* the smallest key k of the union of source keys for which the target
\* elements share one value v and the source elements whose k equals v, in
\* source order, are structurally equal to the target; the filter it
\* synthesizes is on that k and v.
C3_FilterSmallestMatchingKey ==
    (call.op = "detect_filter_by_equality" /\ IsTable(Source) /\ IsTable(Target)) =>
        LET matching == FilteringKeys(Source, Target)
        IN  /\ (call.res.st = "ok") <=> (matching # {})
            /\ call.res.st = "ok" =>
                  /\ call.res.key \in matching
                  /\ \A k \in matching : ~KeyLess(k, call.res.key)
                  /\ structurallyEqual(call.res.val, Field(Target.v[1], call.res.key))

\* The nodes of x structurally equal to y.
Matches(x, y) == {n \in NodesOf(x) : structurallyEqual(n.val, y)}

\* C4: for a descendant d of v that is not structurally equal to any
\* shallower node of v, find_subnode_path(v, d) returns a path, and following
\* it segment by segment from v yields a value structurally equal to d.
C4_PathLeadsToTarget ==
    (/\ call.op = "find_subnode_path"
     /\ \E n \in NodesOf(Source) :
            /\ n.val = Target
            /\ \A m \in Matches(Source, Target) : Len(m.path) >= Len(n.path))
    => /\ call.res.found
       /\ structurallyEqual(get_value_at_path(call.res.path, Source), Target)

\* C5: find_subnode_path returns a shallowest matching path, the first in
\* breadth-first order among the matches of that depth, and finds nothing
\* only when no node matches.
C5_ShallowestFirstMatch ==
    call.op = "find_subnode_path" =>
        LET matches == Matches(Source, Target)
        IN  /\ ~call.res.found => matches = {}
            /\ call.res.found =>
                  \E n \in matches :
                      /\ n.path = call.res.path
                      /\ \A m \in matches :
                            /\ Len(m.path) >= Len(n.path)
                            /\ Len(m.path) = Len(n.path) => ~PosLess(m.pos, n.pos)

\* C6: find_subnode_path(v, v) returns the empty path for every value v.
C6_SelfPathIsEmpty ==
    (call.op = "find_subnode_path" /\ Target = Source) => call.res = Found(<<>>)

\* C7: deep_equal holds of two scalars only when they have the same type and
\* the same value.
C7_ScalarsEqualBySameTypeAndValue ==
    (call.op = "deep_equal" /\ IsScalar(Source) /\ IsScalar(Target) /\ call.res)
        => (Source.t = Target.t /\ Source.v = Target.v)

RECURSIVE KeyOrders(_), ItemOrders(_)
\* The values that differ from x only in the insertion order of the keys of
\* its mappings.
KeyOrders(x) ==
    CASE x.t = "list" -> {VList(items) : items \in ItemOrders(x.v)}
      [] x.t = "dict" ->
            LET vals == ItemOrders([i \in 1..Len(x.v) |-> x.v[i][2]])
            IN  {VDict([i \in 1..Len(x.v) |-> <<x.v[p[i]][1], w[p[i]]>>]) :
                    p \in Permutations(1..Len(x.v)), w \in vals}
      [] OTHER -> {x}

\* The sequences whose i-th item is one of the key orders of items[i].
ItemOrders(items) ==
    IF items = <<>> THEN {<<>>}
    ELSE {<<h>> \o t : h \in KeyOrders(Head(items)), t \in ItemOrders(Tail(items))}

\* C8, as stated: whatever the insertion order of the keys of the mappings
\* of source and target, infer_filter_from_edit arrives at the same
\* candidate expression, or at no candidate in each case.
C8_SameCandidateForAnyKeyOrder ==
    (Inferred /\ call.res.attempted # <<>>) =>
        \A s \in KeyOrders(Source), t \in KeyOrders(Target) :
            synthesize(s, t).cand = call.res.cand

\* C8, amended: whatever the insertion order of the keys, the same rule
\* answers; a Projection or EqualityFilter candidate is the same expression
\* and no candidate stays no candidate; an ExactPath candidate is a path of
\* the same length, which among equal-depth matches may be another one.
C8_SameRuleAndKeyForAnyKeyOrder ==
    (Inferred /\ call.res.attempted # <<>>) =>
        \A s \in KeyOrders(Source), t \in KeyOrders(Target) :
            LET r == synthesize(s, t)
            IN  /\ r.kind = call.res.kind
                /\ call.res.kind # "ExactPath" => r.cand = call.res.cand
                /\ call.res.kind = "ExactPath" => Len(r.path) = Len(call.res.path)

\* C8 witness: a Projection candidate for a table whose first row lists b
\* before a, when both columns equal the target.
C8_Witness ==
    /\ Inferred
    /\ call.res.kind = "Projection"
    /\ call.res.key = kA
    /\ dict_keys(Source.v[1]) = <<kB, kA>>
    /\ deep_equal(Column(Source, kB), Target)

\* C9: when none of ExactPath, Projection and EqualityFilter succeeds,
\* infer_filter_from_edit ends with no candidate and the message that says
\* so; it does not end in an exception.
C9_NoCandidateWhenNoRuleSucceeds ==
    (/\ Inferred
     /\ call.res.attempted # <<>>
     /\ ~find_subnode_path(Source, Target).found
     /\ detect_projection(Source, Target).st # "ok"
     /\ detect_filter_by_equality(Source, Target).st # "ok")
    => /\ call.res.kind = "NoCandidate"
       /\ pending_suggestion = None
       /\ suggestion_bar = Bar("no_candidate", "false")

\* C9, the part that holds: when every rule returns without a candidate the
\* request ends with no candidate and the message that says so.
C9_NoCandidateWhenEveryRuleReturnsNone ==
    (/\ Inferred
     /\ call.res.attempted # <<>>
     /\ ~find_subnode_path(Source, Target).found
     /\ detect_projection(Source, Target).st = "none"
     /\ detect_filter_by_equality(Source, Target).st = "none")
    => /\ call.res.kind = "NoCandidate"
       /\ pending_suggestion = None
       /\ suggestion_bar = Bar("no_candidate", "false")

\* C10: verify_pending shows the candidate as matching exactly when its
\* evaluation on the selected value succeeds and the result (decoded when it
\* decodes, the raw text otherwise) is structurally equal to the target; a
\* failed evaluation is shown as a verification error.
C10_VerifyPassesIffResultEqualsTarget ==
    (Inferred /\ call.res.kind \in Candidates) =>
        LET result == evaluate_expression(pending_suggestion, Source)
            loaded == yaml_or_json_load(result.res)
            obj == IF loaded.st = "ok" THEN loaded.res ELSE result.res.v
        IN  /\ (suggestion_bar.ok = "true") <=>
                  (result.st = "ok" /\ structurallyEqual(obj, pending_target_obj))
            /\ result.st = "raise" => suggestion_bar = Bar("verify_error", "false")

\* C11: while a candidate is pending, every change of the selected value
\* re-runs the verification of the pending candidate against the newly
\* selected value, whatever the main expression holds, so the suggestion bar
\* shows the verdict for the current selection.
C11_SelectionReverifiesPending ==
    [][(/\ call'.op = "select"
        /\ selected_value' # selected_value
        /\ pending_suggestion # None
        /\ pending_target_obj # None)
       => suggestion_bar' =
              verify_pending(pending_suggestion, pending_target_obj, selected_value')]_vars

\* C11, the part that holds: when the main expression evaluates on the newly
\* selected value, the selection re-runs the verification.
C11_ReverifiedWhenExpressionEvaluates ==
    [][(/\ call'.op = "select"
        /\ pending_suggestion # None
        /\ pending_target_obj # None
        /\ selected_value' # None
        /\ expr_input.t = "expr"
        /\ evaluate_expression(expr_input, selected_value').st = "ok")
       => suggestion_bar' =
              verify_pending(pending_suggestion, pending_target_obj, selected_value')]_vars

\* C12: an inference request never lets an exception escape: whatever the
\* selected value and the decoded target (mapping keys that are no strings or
\* of mixed types, fields that hold sequences or mappings),
\* infer_filter_from_edit ends with a candidate, with no candidate or with
\* an error message.
C12_NoExceptionEscapesInference ==
    Inferred => call.res.kind # "raise"

\* The kind of the segment at position i of a path into x: "Key" when the
\* value the path has reached there is a mapping, "Index" when it is a
\* sequence.
SegmentKind(x, path, i) ==
    IF IsDict(get_value_at_path(SubSeq(path, 1, i - 1), x)) THEN "Key" ELSE "Index"

\* C18: path_to_jmespath renders every Index segment as a subscript and
\* every Key segment as member access, dotted for an identifier and quoted
\* otherwise; a mapping key is never rendered as a subscript, whatever its
\* value; the empty path is rendered as @.
C18_AccessorFollowsSegmentKind ==
    call.op = "path_to_jmespath" =>
        /\ call.res.st = "ok"
        /\ call.path = <<>> => call.res.res = <<Piece("current", None)>>
        /\ \A i \in 1..Len(call.path) :
              LET piece == call.res.res[i]
                  seg == call.path[i]
              IN  IF SegmentKind(Source, call.path, i) = "Index"
                  THEN piece = Piece("index", seg)
                  ELSE /\ piece.k \in {"field", "bracket_quoted"}
                       /\ piece.k = "field" <=> (IsStr(seg) /\ isidentifier(seg.v))

\* C18, the part that holds: on a path whose keys are all strings every
\* Index segment is a subscript, every Key segment member access, and the
\* empty path is @.
C18_AccessorOfStringKeys ==
    (call.op = "path_to_jmespath"
     /\ \A i \in 1..Len(call.path) :
            SegmentKind(Source, call.path, i) = "Key" => IsStr(call.path[i]))
    => /\ call.res.st = "ok"
       /\ call.path = <<>> => call.res.res = <<Piece("current", None)>>
       /\ \A i \in 1..Len(call.path) :
             LET piece == call.res.res[i]
                 seg == call.path[i]
             IN  IF SegmentKind(Source, call.path, i) = "Index"
                 THEN piece = Piece("index", seg)
                 ELSE /\ piece.k \in {"field", "bracket_quoted"}
                      /\ piece.k = "field" <=> isidentifier(seg.v)

\* C13 (as stated): a request that ends in NoCandidate leaves the document,
\* the selection, the previously pending candidate and its target the same.
C13_NoCandidateLeavesPendingPair ==
    [][(call'.op = "infer" /\ call'.res.kind = "NoCandidate")
       => UNCHANGED <<data, selected_value, pending_suggestion, pending_target_obj>>]_vars

\* C13 (amended): a request that ends in NoCandidate reports that no query
\* could be synthesized, leaves the document and the selection the same, and
\* clears the pending candidate and its target (lines 518-519).
C13_NoCandidateClearsPendingPair ==
    [][(call'.op = "infer" /\ call'.res.kind = "NoCandidate")
       => /\ UNCHANGED <<data, selected_value>>
          /\ pending_suggestion' = None
          /\ pending_target_obj' = None
          /\ suggestion_bar' = Bar("no_candidate", "false")]_vars

\* A request ended in NoCandidate in a session where an earlier request had
\* left a candidate, which Ctrl+Y made the main expression.
C13_Witness ==
    /\ Inferred
    /\ call.res.kind = "NoCandidate"
    /\ expr_input.t = "expr"
    /\ expr_input # json_query_expr(<<Piece("current", None)>>)
    /\ pending_suggestion = None
    /\ pending_target_obj = None

\* C14: a request whose target text cannot be decoded reports the parse
\* error, enters no rule and produces no candidate, and leaves the document,
\* the selection, the pending candidate and its target the same.
C14_ParseErrorLeavesSessionUntouched ==
    [][(call'.op = "infer" /\ selected_value # None /\ output_editor.kind = "malformed")
       => /\ call'.res.kind = "parse_error"
          /\ call'.res.attempted = <<>>
          /\ call'.res.cand = None
          /\ suggestion_bar' = Bar("parse_error", "false")
          /\ UNCHANGED <<data, selected_value, pending_suggestion, pending_target_obj>>]_vars

\* A request on an undecodable target was made while a candidate was pending,
\* and the candidate is still pending.
C14_Witness ==
    /\ Inferred
    /\ selected_value # None
    /\ output_editor.kind = "malformed"
    /\ call.res.kind = "parse_error"
    /\ pending_suggestion # None
    /\ pending_target_obj # None

\* C15 (as stated): after every inference request, whatever its outcome, the
\* pending candidate is the one this request produced, or absent.
C15_PendingIsThisRequestsOrAbsent ==
    Inferred => pending_suggestion \in {call.res.cand, None}

\* C15 (amended): after a request that produced a candidate, the pending pair
\* is that candidate and the request's target; after NoCandidate the pending
\* pair is absent; after a request that returned early (no selection, empty
\* target, parse error) or whose rule raised, the pending pair is the one the
\* request started from.
C15_PendingAfterRequest ==
    [][call'.op = "infer" =>
          IF call'.res.kind \in Candidates
          THEN /\ pending_suggestion' = call'.res.cand
               /\ pending_target_obj' = yaml_or_json_load(output_editor).res
          ELSE IF call'.res.kind = "NoCandidate"
          THEN pending_suggestion' = None /\ pending_target_obj' = None
          ELSE UNCHANGED <<pending_suggestion, pending_target_obj>>]_vars

\* A request on an empty editor produced nothing, and the candidate of an
\* earlier request is still pending after it.
C15_Witness ==
    /\ Inferred
    /\ call.res.kind = "empty_target"
    /\ call.res.cand = None
    /\ pending_suggestion # None

\* C16: decoding tries YAML first and JSON only when YAML failed; when both
\* fail, the error that leaves is the one the YAML decoder raised.
C16_YamlThenJsonElseYamlError ==
    call.op = "yaml_or_json_load" =>
        call.res = IF yaml_parser_load(call.text).st = "ok"
                   THEN yaml_parser_load(call.text)
                   ELSE IF json_loads(call.text).st = "ok"
                   THEN json_loads(call.text)
                   ELSE Raise("YAMLError")

\* C17: load_data lets no exception leave; a decodable file becomes the
\* document with no error recorded, and a file that fails to load leaves the
\* document null with the error recorded in data_load_error.
C17_LoadRecordsDocumentOrError ==
    call.op = "on_mount" =>
        /\ call.res.st # "raise"
        /\ IF data_file.kind # "unreadable" /\ yaml_or_json_load_fallback(data_file).st = "ok"
           THEN data = yaml_or_json_load_fallback(data_file).res /\ data_load_error = None
           ELSE data = None /\ data_load_error # None

\* C19: whenever a request returns a candidate, evaluating the candidate on
\* the selected value gives a value structurally equal to the target, and the
\* verification the request ends in passes.
C19_CandidateEvaluatesToTarget ==
    (Inferred /\ call.res.kind \in Candidates) =>
        LET r == json_query(Source, call.res.cand.v)
        IN  /\ r.st = "ok"
            /\ structurallyEqual(r.res, Target)
            /\ suggestion_bar = Bar("matches", "true")

RECURSIVE ItemsAtDepth(_)
\* The items met at the end of the walks of d steps from the root.
ItemsAtDepth(d) ==
    IF d = 0 THEN {Ref(1)}
    ELSE UNION {{heap[n.ref].items[i] : i \in 1..Len(heap[n.ref].items)} :
                   n \in {x \in ItemsAtDepth(d - 1) : x.ref # 0}}

\* The depths at which an item equal to the target is met. A container of
\* the graph is met within MaxObjects - 1 steps, an item within MaxObjects.
MatchDepths(target) ==
    {d \in 0..MaxObjects : \E n \in ItemsAtDepth(d) : heap_equal(n, target)}

RECURSIVE item_at(_, _)
\* The item a path leads to from a node of the graph.
item_at(node, path) ==
    IF path = <<>> THEN node
    ELSE LET kids == heap_children(node)
         IN  item_at(kids[CHOOSE i \in 1..Len(kids) : kids[i][1] = Head(path)][2],
                     Tail(path))

Searching == call.op = "find_subnode_path"

\* While the search runs no container has its children iterated twice, and
\* the queue never holds more than the root and one entry per item.
ExpandedAtMostOnce ==
    Searching => /\ \A o \in 1..MaxObjects : call.expanded[o] <= 1
                 /\ Len(queue) <= QueueCap

\* What the search returns is a shallowest match: the empty path if the root
\* matches, NotFound if nothing in the graph matches, and otherwise a path
\* to a matching item whose length is the least depth at which one is met.
ShallowestFound ==
    (Searching /\ call.pc = "done") =>
        IF MatchDepths(call.target) = {} THEN call.res = NotFound
        ELSE /\ call.res.found
             /\ heap_equal(item_at(Ref(1), call.res.path), call.target)
             /\ \A d \in MatchDepths(call.target) : Len(call.res.path) <= d

\* C20: on every graph, with containers shared or on a cycle, the search
\* ends; no container is expanded more than once; and passing over a
\* container already seen never loses a match at the shallowest depth.
C20_SearchEndsWithShallowestMatch ==
    /\ []ExpandedAtMostOnce
    /\ []ShallowestFound
    /\ Searching ~> (Searching /\ call.pc = "done")

\* A search on a graph where the root holds itself passed over a container
\* it had seen and then found the target two steps down.
C20_Witness ==
    /\ Searching
    /\ call.pc = "done"
    /\ call.skipped
    /\ call.res.found
    /\ Len(call.res.path) = 2
    /\ \E i \in 1..Len(heap[1].items) : heap[1].items[i] = Ref(1)

C22_CtrlJToggles ==
    [][call'.op = "ctrl+j" => show_jmes_tester' = ~show_jmes_tester]_vars

====
